---- MODULE Spec2Model ----
(***************************************************************************)
(* Model of the bidding core of the vehicle-auction application:           *)
(* the Auction, Bid and User rows (app/models) and the place_bid request   *)
(* handler (app/routes/auctions.py).  Each request handler runs in its own *)
(* worker with its own ORM session: it loads the auction row, validates    *)
(* against the loaded copy, and writes the row back at commit.  Nothing in *)
(* the handler locks the row, so the steps of different requests           *)
(* interleave, and the wall clock advances between any two steps.          *)
(*                                                                         *)
(* Money is in whole dollars, time in abstract clock ticks.                *)
(*                                                                         *)
(* The other handlers have their own specifications over the same tables:  *)
(* SpecOrders (the orders table and pay), SpecListing (a bidder beside the *)
(* auto-bid and vehicle handlers), SpecVehicles (update, submit, delete),  *)
(* SpecCatalog (list_vehicles), SpecClock (Auction.time_remaining),        *)
(* SpecImages (vehicle images) and SpecRegister (register).                *)
(***************************************************************************)
EXTENDS Integers, Sequences, FiniteSets, TLC

\* ------------------------------------------------------------------ bounds
MaxTime == 3          \* the clock runs over 0..MaxTime
MaxRequests == 2      \* place_bid requests begun in one behaviour
NumSteps == 3         \* bid amounts offered: BasePrice - 50, ..., BasePrice + 50 * NumSteps
MaxOrders == 2        \* Order rows offered to the orders table in one behaviour
TicksPerSecond == 2   \* clock ticks in one second, where whole seconds are taken
MaxImages == 2        \* image rows ever registered in one behaviour

\* ------------------------------------------------------- program constants
INCREMENT == 100      \* the fixed increment added to current_bid
BasePrice == 15000    \* the fixture vehicle's starting_price
StartsAt == 1         \* the auction's starts_at tick
EndsAt == 2           \* the auction's ends_at tick
HistoryLimit == 50    \* rows returned by the bid-history endpoint
MinPassword == 8      \* shortest password register accepts
VehiclePrice == 16000 \* the fixture order's vehicle_price
BuyerFee == 800       \* the fixture order's buyer_fee
TitleFee == 75        \* the fixture order's title_fee
OrderTotal == 16875   \* the fixture order's total

NULL == "NULL"

AuctionIds == {1}
UserIds == 1..3
VehicleIds == 1..2    \* vehicle 1 is the auction's vehicle, vehicle 2 a draft listing
Workers == 1..2       \* request workers that can run a handler at once

AuctionStatus == {"scheduled", "active", "ended", "cancelled"}

\* JSON values a client can send as data['amount']
Amounts == {0} \cup {BasePrice + 50 * k : k \in (-1)..NumSteps}
AmountInputs ==
    {[kind |-> "null", val |-> 0], [kind |-> "text", val |-> 0]}
    \cup {[kind |-> "number", val |-> v] : v \in Amounts}
    \cup {[kind |-> "numstr", val |-> v] : v \in {0, BasePrice + INCREMENT}}

VARIABLES
    now,        \* datetime.utcnow()
    users,      \* users table: id -> row
    vehicles,   \* vehicles table: id -> row (the auction's vehicle)
    auctions,   \* auctions table: id -> row
    bids,       \* bids table, in insertion (id) order
    req,        \* per worker: the place_bid request it is running
    started,    \* number of requests begun so far
    orders,     \* orders table, in insertion (id) order
    resp,       \* the last answer of an operation other than place_bid
    calls,      \* per worker: the call other than place_bid it is running
    images      \* vehicle_images table, in insertion (id) order

vars == <<now, users, vehicles, auctions, bids, req, started, orders, resp, calls, images>>

\* ------------------------------------------------------------ User model
is_id_verified(u) == u.id_verified_at # NULL

has_payment_method(u) == u.authorize_payment_profile_id # NULL

\* A can_bid that forgot the payment method.
can_bid_IdOnly(u) == is_id_verified(u)

can_bid(u) == is_id_verified(u) /\ has_payment_method(u)

\* ---------------------------------------------------------- Auction model
\* An is_active that forgot the end of the window.
is_active_NoEnd(a, t) == a.status = "active" /\ a.starts_at <= t

\* Auction.is_active evaluated on a loaded row a at clock reading t
is_active(a, t) == a.status = "active" /\ a.starts_at <= t /\ t <= a.ends_at

\* ------------------------------------------------------ place_bid helpers
\* Python truthiness of data.get('amount')
Truthy(in) ==
    CASE in.kind = "null" -> FALSE
      [] in.kind = "number" -> in.val # 0
      [] OTHER -> TRUE

\* float(amount) raises ValueError / TypeError
FloatFails(in) == in.kind = "text"

\* A min_bid that forgot to add the increment to the current bid.
min_bid_NoIncrement(a, v) ==
    IF a.current_bid # 0 THEN a.current_bid ELSE v.starting_price

\* A min_bid that forgot the fallback to the vehicle's starting price.
min_bid_NoFallback(a, v) == a.current_bid + INCREMENT

\* min_bid = float(current_bid) + 100 if current_bid else float(starting_price)
min_bid(a, v) ==
    IF a.current_bid # 0 THEN a.current_bid + INCREMENT ELSE v.starting_price

IdleReq ==
    [pc |-> "idle", user |-> 0, auction_id |-> 0, input |-> [kind |-> "null", val |-> 0],
     loaded |-> NULL, checked_at |-> 0, outcome |-> NULL, min_bid |-> 0,
     current_bid |-> 0, bid_count |-> 0, bid_id |-> 0]

IdleCall == [pc |-> "idle", op |-> "none"]

\* The answer of an operation: its name, its outcome and what it was about.
Answer(op, code, arg) == [op |-> op, code |-> code, arg |-> arg]

NoResp == [op |-> "none", code |-> "none", arg |-> "none"]

Init ==
    /\ now = 0
    /\ users = [u \in UserIds |->
         [email |-> IF u = 1 THEN "ann@x.io" ELSE IF u = 2 THEN "sam@x.io" ELSE "tom@x.io",
          id_verified_at |-> IF u \in {1, 2} THEN "verified" ELSE NULL,
          authorize_payment_profile_id |-> IF u \in {1, 3} THEN "profile" ELSE NULL]]
    /\ vehicles = [v \in VehicleIds |->
         [seller_id |-> 2,
          status |-> IF v = 1 THEN "active" ELSE "draft",
          vin |-> IF v = 1 THEN "VIN-1" ELSE "VIN-2",
          year |-> <<2021>>, make |-> <<"Honda">>, model |-> <<"Accord">>,
          starting_price |-> BasePrice]]
    /\ \E st \in AuctionStatus :
         auctions = [a \in AuctionIds |->
           [vehicle_id |-> 1, status |-> st, starts_at |-> StartsAt, ends_at |-> EndsAt,
            extended_count |-> 0, current_bid |-> 0, bid_count |-> 0, winner_id |-> 0]]
    /\ bids = <<>>
    /\ req = [w \in Workers |-> IdleReq]
    /\ started = 0
    /\ orders = <<>>
    /\ resp = NoResp
    /\ calls = [w \in Workers |-> IdleCall]
    /\ images = <<>>

\* The wall clock advances.
Tick ==
    /\ now < MaxTime
    /\ now' = now + 1
    /\ UNCHANGED <<users, vehicles, auctions, bids, req, started, orders, resp, calls, images>>

\* place_bid, line 33: the session loads the auction row.
PlaceBidLoad(w, u, a, in) ==
    /\ req[w].pc = "idle"
    /\ \A x \in Workers : x < w => req[x].pc # "idle"   \* the first free worker takes it
    /\ started < MaxRequests
    /\ req' = [req EXCEPT ![w] =
         [IdleReq EXCEPT !.pc = "loaded", !.user = u, !.auction_id = a, !.input = in,
                         !.loaded = auctions[a]]]
    /\ started' = started + 1
    /\ UNCHANGED <<now, users, vehicles, auctions, bids, orders, resp, calls, images>>

\* The checks with the auction check before the bidder check.
Validate_ActiveFirst(u, a, v, in, t) ==
    IF ~is_active(a, t) THEN "not_active"
    ELSE IF ~can_bid(u) THEN "not_eligible"
    ELSE IF ~Truthy(in) THEN "amount_required"
    ELSE IF FloatFails(in) THEN "invalid_amount"
    ELSE IF in.val < min_bid(a, v) THEN "below_minimum"
    ELSE "accepted"

\* place_bid, lines 35-73: the checks in the handler's order, on user row u,
\* loaded auction row a, its vehicle row v, the posted amount and clock
\* reading t.  The error response, or "accepted" when the handler goes on to
\* record the bid.
Validate(u, a, v, in, t) ==
    IF ~can_bid(u) THEN "not_eligible"
    ELSE IF ~is_active(a, t) THEN "not_active"
    ELSE IF ~Truthy(in) THEN "amount_required"
    ELSE IF FloatFails(in) THEN "invalid_amount"
    ELSE IF in.val < min_bid(a, v) THEN "below_minimum"
    ELSE "accepted"

\* A handler that updated the auction row before it had validated the bid.
PlaceBidValidate_WritesFirst(w) ==
    LET r == req[w]
        a == r.loaded
        v == vehicles[a.vehicle_id]
        o == Validate(users[r.user], a, v, r.input, now)
    IN  /\ r.pc = "loaded"
        /\ req' = [req EXCEPT ![w].pc = IF o = "accepted" THEN "commit" ELSE "done",
                              ![w].outcome = IF o = "accepted" THEN NULL ELSE o,
                              ![w].min_bid = IF o = "below_minimum" THEN min_bid(a, v) ELSE 0,
                              ![w].checked_at = now]
        /\ auctions' = [auctions EXCEPT ![r.auction_id].bid_count = a.bid_count + 1]
        /\ UNCHANGED <<now, users, vehicles, bids, started, orders, resp, calls, images>>

\* A handler that closes the auction when it finds it not active.
PlaceBidValidate_LazyClose(w) ==
    LET r == req[w]
        a == r.loaded
        v == vehicles[a.vehicle_id]
        o == Validate(users[r.user], a, v, r.input, now)
    IN  /\ r.pc = "loaded"
        /\ req' = [req EXCEPT ![w].pc = IF o = "accepted" THEN "commit" ELSE "done",
                              ![w].outcome = IF o = "accepted" THEN NULL ELSE o,
                              ![w].min_bid = IF o = "below_minimum" THEN min_bid(a, v) ELSE 0,
                              ![w].checked_at = now]
        /\ auctions' = IF o = "not_active"
                       THEN [auctions EXCEPT ![r.auction_id].status = "ended"]
                       ELSE auctions
        /\ UNCHANGED <<now, users, vehicles, bids, started, orders, resp, calls, images>>

\* place_bid, lines 35-73: an error response ends the request (for a bid below
\* the minimum it carries min_bid); otherwise the handler goes on to line 75.
PlaceBidValidate(w) ==
    LET r == req[w]
        a == r.loaded
        v == vehicles[a.vehicle_id]
        o == Validate(users[r.user], a, v, r.input, now)
    IN  /\ r.pc = "loaded"
        /\ req' = [req EXCEPT ![w].pc = IF o = "accepted" THEN "commit" ELSE "done",
                              ![w].outcome = IF o = "accepted" THEN NULL ELSE o,
                              ![w].min_bid = IF o = "below_minimum" THEN min_bid(a, v) ELSE 0,
                              ![w].checked_at = now]
        /\ UNCHANGED <<now, users, vehicles, auctions, bids, started, orders, resp, calls, images>>

\* A place_bid that keeps one Bid row per bidder: a bidder's new bid
\* overwrites the amount of that bidder's earlier bid on the auction.
PlaceBidCommit_ReplacesOwnBid(w) ==
    LET r == req[w]
        a == r.auction_id
        own == {i \in 1..Len(bids) : bids[i].auction_id = a /\ bids[i].user_id = r.user}
        bid == [id |-> Len(bids) + 1, auction_id |-> a, user_id |-> r.user,
                amount |-> r.input.val, max_bid |-> NULL, is_auto_bid |-> FALSE,
                created_at |-> now]
    IN  /\ r.pc = "commit"
        /\ auctions' = [auctions EXCEPT ![a].current_bid = r.input.val,
                                        ![a].bid_count = r.loaded.bid_count + 1]
        /\ bids' = IF own = {} THEN Append(bids, bid)
                   ELSE [i \in 1..Len(bids) |->
                           IF i \in own THEN [bids[i] EXCEPT !.amount = r.input.val,
                                                             !.created_at = now]
                           ELSE bids[i]]
        /\ req' = [req EXCEPT ![w].pc = "done", ![w].outcome = "accepted",
                              ![w].bid_id = bid.id,
                              ![w].current_bid = auctions'[a].current_bid,
                              ![w].bid_count = auctions'[a].bid_count]
        /\ UNCHANGED <<now, users, vehicles, started, orders, resp, calls, images>>

\* A handler that makes the bidder of an accepted bid the auction's winner.
PlaceBidCommit_SetsWinner(w) ==
    LET r == req[w]
        a == r.auction_id
        bid == [id |-> Len(bids) + 1, auction_id |-> a, user_id |-> r.user,
                amount |-> r.input.val, max_bid |-> NULL, is_auto_bid |-> FALSE,
                created_at |-> now]
    IN  /\ r.pc = "commit"
        /\ auctions' = [auctions EXCEPT ![a].current_bid = r.input.val,
                                        ![a].bid_count = r.loaded.bid_count + 1,
                                        ![a].winner_id = r.user]
        /\ bids' = Append(bids, bid)
        /\ req' = [req EXCEPT ![w].pc = "done", ![w].outcome = "accepted",
                              ![w].bid_id = bid.id,
                              ![w].current_bid = auctions'[a].current_bid,
                              ![w].bid_count = auctions'[a].bid_count]
        /\ UNCHANGED <<now, users, vehicles, started, orders, resp, calls, images>>

\* place_bid, lines 75-99: the Bid row is inserted, the auction row is written
\* back from the session's copy, and the response is built.
PlaceBidCommit(w) ==
    LET r == req[w]
        a == r.auction_id
        bid == [id |-> Len(bids) + 1, auction_id |-> a, user_id |-> r.user,
                amount |-> r.input.val, max_bid |-> NULL, is_auto_bid |-> FALSE,
                created_at |-> now]
    IN  /\ r.pc = "commit"
        /\ auctions' = [auctions EXCEPT ![a].current_bid = r.input.val,
                                        ![a].bid_count = r.loaded.bid_count + 1]
        /\ bids' = Append(bids, bid)
        /\ req' = [req EXCEPT ![w].pc = "done", ![w].outcome = "accepted",
                              ![w].bid_id = bid.id,
                              ![w].current_bid = auctions'[a].current_bid,
                              ![w].bid_count = auctions'[a].bid_count]
        /\ UNCHANGED <<now, users, vehicles, started, orders, resp, calls, images>>

\* The response has been sent; the worker is free again.
Return(w) ==
    /\ req[w].pc = "done"
    /\ req' = [req EXCEPT ![w] = IdleReq]
    /\ UNCHANGED <<now, users, vehicles, auctions, bids, started, orders, resp, calls, images>>

Next ==
    \/ Tick
    \/ \E w \in Workers, u \in UserIds, a \in AuctionIds, in \in AmountInputs :
         PlaceBidLoad(w, u, a, in)
    \/ \E w \in Workers : PlaceBidValidate(w)
    \/ \E w \in Workers : PlaceBidCommit(w)
    \/ \E w \in Workers : Return(w)

Spec == Init /\ [][Next]_vars

\* Every request that has been received runs to its response, and the clock
\* keeps advancing: a step that can be taken is eventually taken.
FairSpec == Spec /\ WF_vars(Next)

\* ------------------------------------------------------------ Order model
\* A nullable column holds <<>> (NULL) or <<value>>.
OrderStatus ==
    {"pending_payment", "paid", "title_processing", "transport_scheduled",
     "in_transit", "delivered", "completed", "cancelled", "refunded"}

\* Keyword arguments given to Order(...): a column left out is <<>>, a status
\* left out is NULL.
OrderInputs ==
    [order_number  : {"ORD-2024-00001", "ORD-2024-00002"},
     auction_id    : {<<>>} \cup {<<a>> : a \in AuctionIds},
     buyer_id      : {1},
     seller_id     : {2},
     vehicle_id    : {1},
     vehicle_price : {<<VehiclePrice>>},
     buyer_fee     : {<<BuyerFee>>},
     transport_fee : {<<>>, <<500>>},
     title_fee     : {<<TitleFee>>},
     tax           : {<<>>},
     total         : {<<>>, <<VehiclePrice>>, <<OrderTotal>>},
     status        : {NULL, "pending_payment", "paid"},
     paid_at       : {<<>>}]

\* Column(..., default=0): the default fills a column that was left out.
DefaultZero(x) == IF x = <<>> THEN <<0>> ELSE x

\* A status column whose default is a later status of the lifecycle.
OrderRow_DefaultPaid(o) ==
    [o EXCEPT !.buyer_fee = DefaultZero(o.buyer_fee),
              !.title_fee = DefaultZero(o.title_fee),
              !.tax = DefaultZero(o.tax),
              !.status = IF o.status = NULL THEN "paid" ELSE o.status]

\* The row that INSERT writes for Order(**o): the column defaults applied.
\* The row's id is its position in the table.
OrderRow(o) ==
    [o EXCEPT !.buyer_fee = DefaultZero(o.buyer_fee),
              !.title_fee = DefaultZero(o.title_fee),
              !.tax = DefaultZero(o.tax),
              !.status = IF o.status = NULL THEN "pending_payment" ELSE o.status]

\* The constraints the orders table declares: NOT NULL columns, the enum of
\* status, and UNIQUE(order_number).  Nothing else is declared.
IntegrityError(row) ==
    \/ row.vehicle_price = <<>>
    \/ row.total = <<>>
    \/ row.status \notin OrderStatus
    \/ \E i \in 1..Len(orders) : orders[i].order_number = row.order_number

\* db.session.add(Order(**o)); db.session.commit()
StoreOrder(o) ==
    /\ Len(orders) < MaxOrders
    /\ LET row == OrderRow(o)
       IN  IF IntegrityError(row)
           THEN /\ resp' = [op |-> "store_order", code |-> "IntegrityError", arg |-> o.status]
                /\ UNCHANGED orders
           ELSE /\ orders' = Append(orders, row)
                /\ resp' = [op |-> "store_order", code |-> "ok", arg |-> o.status]
    /\ UNCHANGED <<now, users, vehicles, auctions, bids, req, started, calls, images>>

\* What pay answers for user u, order number id and HTTP method m, as the
\* handler's checks run.
PayAnswer(u, id, m) ==
    IF id \notin 1..Len(orders) THEN "404"
    ELSE IF orders[id].buyer_id # u THEN "redirect:list_orders"
    ELSE IF orders[id].status # "pending_payment" THEN "redirect:detail"
    ELSE IF m = "POST" THEN "redirect:detail:processed"
    ELSE "render:pay"

\* A pay that marks the order paid when the payment is posted.
Pay_MarksPaid(u, id, m) ==
    /\ resp' = Answer("pay", PayAnswer(u, id, m), ToString(id))
    /\ orders' = IF PayAnswer(u, id, m) = "redirect:detail:processed"
                 THEN [orders EXCEPT ![id].status = "paid", ![id].paid_at = <<now>>]
                 ELSE orders
    /\ UNCHANGED <<now, users, vehicles, auctions, bids, req, started, calls, images>>

\* pay: the payment itself is a TODO, so the handler writes nothing.
Pay(u, id, m) ==
    /\ resp' = Answer("pay", PayAnswer(u, id, m), ToString(id))
    /\ UNCHANGED orders
    /\ UNCHANGED <<now, users, vehicles, auctions, bids, req, started, calls, images>>

NextOrders ==
    \/ \E o \in OrderInputs : StoreOrder(o)
    \/ \E u \in UserIds, id \in 1..MaxOrders, m \in {"GET", "POST"} : Pay(u, id, m)

SpecOrders == Init /\ [][NextOrders]_vars

\* ------------------------------------------------- the other write handlers
\* A set_auto_bid that places the proxy bid it was asked for.
SetAutoBid_PlacesBid(u, a, max) ==
    /\ resp' = Answer("set_auto_bid",
                      IF ~can_bid(users[u]) THEN "403"
                      ELSE IF max = 0 THEN "400" ELSE "200",
                      ToString(a))
    /\ IF can_bid(users[u]) /\ max # 0
       THEN /\ bids' = Append(bids, [id |-> Len(bids) + 1, auction_id |-> a, user_id |-> u,
                                     amount |-> min_bid(auctions[a], vehicles[auctions[a].vehicle_id]),
                                     max_bid |-> max, is_auto_bid |-> TRUE, created_at |-> now])
            /\ auctions' = [auctions EXCEPT
                              ![a].current_bid = min_bid(auctions[a], vehicles[auctions[a].vehicle_id]),
                              ![a].bid_count = @ + 1]
       ELSE UNCHANGED <<auctions, bids>>
    /\ UNCHANGED <<now, users, vehicles, req, started, orders, calls, images>>

\* set_auto_bid: the checks of the handler; the auto-bid itself is a TODO, so
\* no row is written.  max is the posted max_bid, 0 when missing.
SetAutoBid(u, a, max) ==
    /\ resp' = Answer("set_auto_bid",
                      IF ~can_bid(users[u]) THEN "403"
                      ELSE IF max = 0 THEN "400" ELSE "200",
                      ToString(a))
    /\ UNCHANGED <<now, users, vehicles, auctions, bids, req, started, orders, calls, images>>

\* `if not all([...])`, `if x`: a value is truthy when it is not NULL and not
\* the empty string (not 0, for a number).
TruthyText(x) == x # <<>> /\ x[1] # ""

TruthyNumber(x) == x # <<>> /\ x[1] # 0

\* The columns update_vehicle copies from the JSON body: the descriptive and
\* location fields (year, make and model stand for the list) and the prices.
Updatable == {"year", "make", "model", "starting_price"}

\* JSON bodies of update_vehicle: a record of the keys that are present.
UpdateBodies ==
    {<<>>,
     [year |-> <<2022>>],
     [year |-> <<>>],
     [make |-> <<"Toyota">>, starting_price |-> BasePrice + INCREMENT],
     [starting_price |-> 0],
     [status |-> "draft", seller_id |-> 1, vin |-> "VIN-9"],
     [status |-> "sold", year |-> <<2022>>]}

\* An update that copies every key of the body onto the row.
Patch_EveryKey(row, data) ==
    [f \in DOMAIN row |-> IF f \in DOMAIN data THEN data[f] ELSE row[f]]

\* update_vehicle, lines 123-140: the row with the updatable keys of the body
\* copied onto it.
Patch(row, data) ==
    [f \in DOMAIN row |->
        IF f \in Updatable /\ f \in DOMAIN data THEN data[f] ELSE row[f]]

\* update_vehicle
UpdateVehicle(u, v, data) ==
    /\ IF v \notin DOMAIN vehicles
       THEN resp' = Answer("update_vehicle", "404", ToString(v)) /\ UNCHANGED vehicles
       ELSE IF vehicles[v].seller_id # u
       THEN resp' = Answer("update_vehicle", "403", ToString(v)) /\ UNCHANGED vehicles
       ELSE IF vehicles[v].status = "sold"
       THEN resp' = Answer("update_vehicle", "400", ToString(v)) /\ UNCHANGED vehicles
       ELSE /\ vehicles' = [vehicles EXCEPT ![v] = Patch(@, data)]
            /\ resp' = Answer("update_vehicle", "200", ToString(v))
    /\ UNCHANGED <<now, users, auctions, bids, req, started, orders, calls, images>>

\* A submit that forgot the check of the required fields.
Submittable_NoFields(row) == row.status = "draft"

\* submit_vehicle, lines 176-179: the vehicle is a draft and year, make, model
\* and starting_price are all truthy.
Submittable(row) ==
    /\ row.status = "draft"
    /\ TruthyNumber(row.year) /\ TruthyText(row.make) /\ TruthyText(row.model)
    /\ row.starting_price # 0

\* submit_vehicle: a draft listing goes to review.
SubmitVehicle(u, v) ==
    /\ IF v \notin DOMAIN vehicles
       THEN resp' = Answer("submit_vehicle", "404", ToString(v)) /\ UNCHANGED vehicles
       ELSE IF vehicles[v].seller_id # u
       THEN resp' = Answer("submit_vehicle", "403", ToString(v)) /\ UNCHANGED vehicles
       ELSE IF ~Submittable(vehicles[v])
       THEN resp' = Answer("submit_vehicle", "400", ToString(v)) /\ UNCHANGED vehicles
       ELSE /\ vehicles' = [vehicles EXCEPT ![v].status = "pending_review"]
            /\ resp' = Answer("submit_vehicle", "200", ToString(v))
    /\ UNCHANGED <<now, users, auctions, bids, req, started, orders, calls, images>>

\* Vehicle.auction: the auctions whose vehicle_id is v (at most one).
VehicleAuction(v) == {a \in AuctionIds : auctions[a].vehicle_id = v}

\* A delete that forgot the check of the vehicle's status.
Undeletable_ActiveOnly(v) ==
    \E a \in VehicleAuction(v) : auctions[a].status = "active"

\* delete_vehicle, lines 156-160: the vehicle is sold or its auction is active.
Undeletable(v) ==
    \/ vehicles[v].status = "sold"
    \/ \E a \in VehicleAuction(v) : auctions[a].status = "active"

\* delete_vehicle.  Vehicle.images cascades the delete to the vehicle's images.
\* Vehicle.auction has no cascade, so deleting a vehicle that has an auction
\* makes the session blank auctions.vehicle_id, a NOT NULL column: the commit
\* raises IntegrityError and the transaction is rolled back.
DeleteVehicle(u, v) ==
    /\ IF v \notin DOMAIN vehicles
       THEN resp' = Answer("delete_vehicle", "404", ToString(v)) /\ UNCHANGED <<vehicles, images>>
       ELSE IF vehicles[v].seller_id # u
       THEN resp' = Answer("delete_vehicle", "403", ToString(v)) /\ UNCHANGED <<vehicles, images>>
       ELSE IF Undeletable(v)
       THEN resp' = Answer("delete_vehicle", "400", ToString(v)) /\ UNCHANGED <<vehicles, images>>
       ELSE IF VehicleAuction(v) # {}
       THEN resp' = Answer("delete_vehicle", "IntegrityError", ToString(v)) /\ UNCHANGED <<vehicles, images>>
       ELSE /\ vehicles' = [x \in DOMAIN vehicles \ {v} |-> vehicles[x]]
            /\ images' = SelectSeq(images, LAMBDA r : r.vehicle_id # v)
            /\ resp' = Answer("delete_vehicle", "200", ToString(v))
    /\ UNCHANGED <<now, users, auctions, bids, req, started, orders, calls>>

\* Amounts posted by the bidders of the listing scenario.
ListingInputs ==
    {[kind |-> "number", val |-> v] : v \in {BasePrice, BasePrice + INCREMENT}}

\* A bidder bids, one request after the other, while sellers edit, submit and
\* delete listings between the steps of the bidder's requests.
NextListing ==
    \/ Tick
    \/ \E w \in {1}, u \in {1}, a \in AuctionIds, in \in ListingInputs :
         PlaceBidLoad(w, u, a, in)
    \/ \E w \in Workers : PlaceBidValidate(w)
    \/ \E w \in Workers : PlaceBidCommit(w)
    \/ \E w \in Workers : Return(w)
    \/ \E u \in UserIds, a \in AuctionIds, max \in {0, BasePrice} : SetAutoBid(u, a, max)
    \/ \E u \in UserIds, v \in VehicleIds,
          data \in {<<>>, [starting_price |-> BasePrice + INCREMENT]} :
         UpdateVehicle(u, v, data)
    \/ \E u \in UserIds, v \in VehicleIds : SubmitVehicle(u, v)
    \/ \E u \in UserIds, v \in VehicleIds : DeleteVehicle(u, v)

SpecListing == Init /\ [][NextListing]_vars

\* ------------------------------------------------- Auction.time_remaining
\* int(delta.total_seconds()) of a delta of d clock ticks: the whole seconds,
\* rounded towards zero.
WholeSeconds(d) ==
    IF d >= 0 THEN d \div TicksPerSecond ELSE 0 - ((0 - d) \div TicksPerSecond)

\* A time_remaining without the is_active check.
time_remaining_NoCheck(a, t1, t2) ==
    LET s == WholeSeconds(a.ends_at - t2) IN IF s > 0 THEN s ELSE 0

\* Auction.time_remaining on row a: is_active reads the clock (t1), then the
\* delta is taken from a second reading of the clock (t2).
time_remaining(a, t1, t2) ==
    IF ~is_active(a, t1) THEN 0
    ELSE LET s == WholeSeconds(a.ends_at - t2) IN IF s > 0 THEN s ELSE 0

\* Auction rows the property is read on: any status, any window on the clock.
InitClock ==
    /\ now = 0
    /\ users = [u \in UserIds |->
         [id_verified_at |-> "verified", authorize_payment_profile_id |-> "profile"]]
    /\ vehicles = [v \in VehicleIds |->
         [seller_id |-> 2, status |-> "active", vin |-> "VIN-1",
          year |-> <<2021>>, make |-> <<"Honda">>, model |-> <<"Accord">>,
          starting_price |-> BasePrice]]
    /\ \E st \in AuctionStatus, s \in 0..MaxTime, e \in 0..MaxTime :
         /\ s <= e
         /\ auctions = [a \in AuctionIds |->
              [vehicle_id |-> 1, status |-> st, starts_at |-> s, ends_at |-> e,
               extended_count |-> 0, current_bid |-> 0, bid_count |-> 0, winner_id |-> 0]]
    /\ bids = <<>>
    /\ req = [w \in Workers |-> IdleReq]
    /\ started = 0
    /\ orders = <<>>
    /\ resp = NoResp
    /\ calls = [w \in Workers |-> IdleCall]
    /\ images = <<>>

\* time_remaining, line 57: is_active is evaluated; the clock is read.
TimeRemainingCheck(w, a) ==
    /\ calls[w].pc = "idle"
    /\ calls' = [calls EXCEPT ![w] =
         [pc |-> "checked", op |-> "time_remaining", auction_id |-> a, t1 |-> now]]
    /\ UNCHANGED <<now, users, vehicles, auctions, bids, req, started, orders, resp, images>>

\* time_remaining, lines 58-60: the clock is read again and the value returned.
TimeRemainingReturn(w) ==
    /\ calls[w].pc = "checked" /\ calls[w].op = "time_remaining"
    /\ calls' = [calls EXCEPT ![w] =
         [pc |-> "done", op |-> "time_remaining", auction_id |-> calls[w].auction_id,
          t1 |-> calls[w].t1, t2 |-> now,
          result |-> time_remaining(auctions[calls[w].auction_id], calls[w].t1, now)]]
    /\ UNCHANGED <<now, users, vehicles, auctions, bids, req, started, orders, resp, images>>

\* The caller has the value; the worker is free again.
CallReturn(w) ==
    /\ calls[w].pc = "done"
    /\ calls' = [calls EXCEPT ![w] = IdleCall]
    /\ UNCHANGED <<now, users, vehicles, auctions, bids, req, started, orders, resp, images>>

NextClock ==
    \/ Tick
    \/ \E w \in Workers, a \in AuctionIds : TimeRemainingCheck(w, a)
    \/ \E w \in Workers : TimeRemainingReturn(w)
    \/ \E w \in Workers : CallReturn(w)

SpecClock == InitClock /\ [][NextClock]_vars

\* ------------------------------------------------------- list_vehicles
\* Query-string arguments of GET /api/vehicles: a key left out is <<>>.
ListArgs ==
    [make      : {<<>>, <<"">>, <<"Honda">>},
     model     : {<<>>, <<"Accord">>},
     year_min  : {<<>>, <<0>>, <<2020>>},
     year_max  : {<<>>, <<0>>, <<2022>>},
     price_max : {<<>>, <<0>>, <<BasePrice>>},
     page      : {1, 2},
     per_page  : {1, 20}]

\* `if x := request.args.get(...)`: the filter is applied when the value is
\* truthy, i.e. present and not the empty string (not 0, for a number).
AppliesText(x) == x # <<>> /\ x[1] # ""

AppliesNumber(x) == x # <<>> /\ x[1] # 0

\* The WHERE clause list_vehicles builds, on vehicle row v.  A comparison with
\* a NULL column is not true.
Matches(v, q) ==
    /\ v.status = "active"
    /\ AppliesText(q.make) => v.make = q.make
    /\ AppliesText(q.model) => v.model = q.model
    /\ AppliesNumber(q.year_min) => (v.year # <<>> /\ v.year[1] >= q.year_min[1])
    /\ AppliesNumber(q.year_max) => (v.year # <<>> /\ v.year[1] <= q.year_max[1])
    /\ AppliesNumber(q.price_max) => v.starting_price <= q.price_max[1]

\* The ids of the set S, largest first (ORDER BY created_at DESC: rows are
\* created in id order).
RECURSIVE Descending(_)
Descending(S) ==
    IF S = {} THEN <<>>
    ELSE LET m == CHOOSE x \in S : \A y \in S : y <= x
         IN  <<m>> \o Descending(S \ {m})

\* paginate(page, per_page, error_out=False): the rows of the page, none when
\* the page is past the end.
Paginate(h, page, per_page) ==
    LET lo == (page - 1) * per_page + 1
        hi == IF page * per_page < Len(h) THEN page * per_page ELSE Len(h)
    IN  SubSeq(h, lo, hi)

\* The vehicles table of the catalogue: the fixture vehicle and one other
\* vehicle of any status, make, year and price.
InitCatalog ==
    /\ now = 0
    /\ users = [u \in UserIds |->
         [id_verified_at |-> "verified", authorize_payment_profile_id |-> "profile"]]
    /\ \E st \in {"draft", "active", "sold"}, mk \in {"Honda", "Toyota"},
          yr \in {2019, 2021}, pr \in {BasePrice, BasePrice + INCREMENT} :
         vehicles = [v \in VehicleIds |->
           IF v = 1
           THEN [seller_id |-> 2, status |-> "active", vin |-> "VIN-1",
                 year |-> <<2021>>, make |-> <<"Honda">>, model |-> <<"Accord">>,
                 starting_price |-> BasePrice]
           ELSE [seller_id |-> 2, status |-> st, vin |-> "VIN-2",
                 year |-> <<yr>>, make |-> <<mk>>, model |-> <<"Accord">>,
                 starting_price |-> pr]]
    /\ auctions = [a \in AuctionIds |->
         [vehicle_id |-> 1, status |-> "active", starts_at |-> StartsAt, ends_at |-> EndsAt,
          extended_count |-> 0, current_bid |-> 0, bid_count |-> 0, winner_id |-> 0]]
    /\ bids = <<>>
    /\ req = [w \in Workers |-> IdleReq]
    /\ started = 0
    /\ orders = <<>>
    /\ resp = NoResp
    /\ calls = [w \in Workers |-> IdleCall]
    /\ images = <<>>

\* list_vehicles: the page of matching vehicles, newest first.
ListVehicles(q) ==
    /\ resp.op = "none"
    /\ resp' = [op |-> "list_vehicles", code |-> "200", arg |-> q,
                items |-> Paginate(Descending({v \in DOMAIN vehicles : Matches(vehicles[v], q)}),
                                   q.page, q.per_page)]
    /\ UNCHANGED <<now, users, vehicles, auctions, bids, req, started, orders, calls, images>>

NextCatalog == \E q \in ListArgs : ListVehicles(q)

SpecCatalog == InitCatalog /\ [][NextCatalog]_vars

\* ------------------------------------------------- the sellers' scenario
\* The fixture vehicle with its auction, and a second vehicle of the same
\* seller, a draft or sold.
InitVehicles ==
    /\ now = 0
    /\ users = [u \in UserIds |->
         [id_verified_at |-> "verified", authorize_payment_profile_id |-> "profile"]]
    /\ \E st \in {"draft", "sold"} :
         vehicles = [v \in VehicleIds |->
           IF v = 1
           THEN [seller_id |-> 2, status |-> "active", vin |-> "VIN-1",
                 year |-> <<2021>>, make |-> <<"Honda">>, model |-> <<"Accord">>,
                 starting_price |-> BasePrice]
           ELSE [seller_id |-> 2, status |-> st, vin |-> "VIN-2",
                 year |-> <<2021>>, make |-> <<"Honda">>, model |-> <<"Accord">>,
                 starting_price |-> BasePrice]]
    /\ \E st \in AuctionStatus :
         auctions = [a \in AuctionIds |->
           [vehicle_id |-> 1, status |-> st, starts_at |-> StartsAt, ends_at |-> EndsAt,
            extended_count |-> 0, current_bid |-> 0, bid_count |-> 0, winner_id |-> 0]]
    /\ bids = <<>>
    /\ req = [w \in Workers |-> IdleReq]
    /\ started = 0
    /\ orders = <<>>
    /\ resp = NoResp
    /\ calls = [w \in Workers |-> IdleCall]
    /\ images = <<>>

NextVehicles ==
    \/ \E u \in UserIds, v \in VehicleIds, data \in UpdateBodies : UpdateVehicle(u, v, data)
    \/ \E u \in UserIds, v \in VehicleIds : SubmitVehicle(u, v)
    \/ \E u \in UserIds, v \in VehicleIds : DeleteVehicle(u, v)

SpecVehicles == InitVehicles /\ [][NextVehicles]_vars

\* ------------------------------------------------------ vehicle images
\* Rows of vehicle_images keep their place when deleted (deleted = TRUE), so
\* that a row's position is its auto-increment id.
LiveImages(v) ==
    {i \in 1..Len(images) : ~images[i].deleted /\ images[i].vehicle_id = v}

PrimaryImages(v) == {i \in LiveImages(v) : images[i].is_primary}

\* Rows another request has updated and not yet committed: they stay locked
\* until that request commits.
LockedByOthers(w) ==
    UNION {calls[x].unset : x \in {y \in Workers \ {w} : calls[y].pc = "unset"}}

\* func.max(VehicleImage.sort_order) ... or 0
MaxSortOrder(v) ==
    IF LiveImages(v) = {} THEN 0
    ELSE LET m == CHOOSE i \in LiveImages(v) :
                    \A j \in LiveImages(v) : images[j].sort_order <= images[i].sort_order
         IN  images[m].sort_order

\* Requests that have begun to register an image and have not committed.
Registering == {w \in Workers : calls[w].pc = "unset"}

\* add_vehicle_image, lines 36-56: the checks; then, for a primary image, the
\* UPDATE that unsets the vehicle's primary images (in this request's
\* transaction), and the query of the largest sort_order.  d.keys says
\* whether s3_key and url are in the body.
AddImageBegin(w, u, v, d) ==
    /\ calls[w].pc = "idle"
    /\ Len(images) + Cardinality(Registering) < MaxImages
    /\ IF v \notin DOMAIN vehicles
       THEN resp' = Answer("add_vehicle_image", "404", ToString(v)) /\ UNCHANGED calls
       ELSE IF vehicles[v].seller_id # u
       THEN resp' = Answer("add_vehicle_image", "403", ToString(v)) /\ UNCHANGED calls
       ELSE IF ~d.keys
       THEN resp' = Answer("add_vehicle_image", "400", ToString(v)) /\ UNCHANGED calls
       ELSE /\ d.is_primary => PrimaryImages(v) \cap LockedByOthers(w) = {}
            /\ calls' = [calls EXCEPT ![w] =
                 [pc |-> "unset", op |-> "add_vehicle_image", vehicle_id |-> v,
                  is_primary |-> d.is_primary,
                  unset |-> IF d.is_primary THEN PrimaryImages(v) ELSE {},
                  sort_order |-> MaxSortOrder(v) + 1]]
            /\ UNCHANGED resp
    /\ UNCHANGED <<now, users, vehicles, auctions, bids, req, started, orders, images>>

\* add_vehicle_image, lines 58-72: the image row is inserted and the
\* transaction, with its UPDATE, is committed.
AddImageCommit(w) ==
    /\ calls[w].pc = "unset"
    /\ images' = Append([i \in 1..Len(images) |->
                           IF i \in calls[w].unset
                           THEN [images[i] EXCEPT !.is_primary = FALSE]
                           ELSE images[i]],
                        [id |-> Len(images) + 1, vehicle_id |-> calls[w].vehicle_id,
                         is_primary |-> calls[w].is_primary,
                         sort_order |-> calls[w].sort_order, deleted |-> FALSE])
    /\ calls' = [calls EXCEPT ![w] = IdleCall]
    /\ resp' = Answer("add_vehicle_image", "201", ToString(calls[w].vehicle_id))
    /\ UNCHANGED <<now, users, vehicles, auctions, bids, req, started, orders>>

\* Two requests are registering a primary image of the same vehicle.  A
\* database that locks the range its UPDATE scanned makes their INSERTs wait
\* for each other and aborts one of them; a database that does not lets both
\* commit.  Which database runs is not the code's choice: both outcomes occur.
AddImageDeadlock(w) ==
    /\ calls[w].pc = "unset" /\ calls[w].is_primary
    /\ \E x \in Workers \ {w} :
         /\ calls[x].pc = "unset" /\ calls[x].is_primary
         /\ calls[x].vehicle_id = calls[w].vehicle_id
    /\ calls' = [calls EXCEPT ![w] = IdleCall]
    /\ resp' = Answer("add_vehicle_image", "500", ToString(calls[w].vehicle_id))
    /\ UNCHANGED <<now, users, vehicles, auctions, bids, req, started, orders, images>>

\* delete_vehicle_image: the checks, then the row is deleted.  A row another
\* request has updated cannot be deleted before that request commits.
DeleteImage(u, v, img) ==
    /\ img \notin UNION {calls[x].unset : x \in Registering}
    /\ IF v \notin DOMAIN vehicles
       THEN resp' = Answer("delete_vehicle_image", "404", ToString(v)) /\ UNCHANGED images
       ELSE IF vehicles[v].seller_id # u
       THEN resp' = Answer("delete_vehicle_image", "403", ToString(v)) /\ UNCHANGED images
       ELSE IF img \notin LiveImages(v)
       THEN resp' = Answer("delete_vehicle_image", "404", ToString(v)) /\ UNCHANGED images
       ELSE /\ images' = [images EXCEPT ![img].deleted = TRUE]
            /\ resp' = Answer("delete_vehicle_image", "200", ToString(v))
    /\ UNCHANGED <<now, users, vehicles, auctions, bids, req, started, orders, calls>>

\* Image requests for the stored vehicles and for one that does not exist.
ImageVehicleIds == VehicleIds \cup {Cardinality(VehicleIds) + 1}

NextImages ==
    \/ \E w \in Workers, u \in {1, 2}, v \in ImageVehicleIds,
          d \in [keys : BOOLEAN, is_primary : BOOLEAN] : AddImageBegin(w, u, v, d)
    \/ \E w \in Workers : AddImageCommit(w)
    \/ \E w \in Workers : AddImageDeadlock(w)
    \/ \E u \in {1, 2}, v \in ImageVehicleIds, img \in 1..MaxImages : DeleteImage(u, v, img)

SpecImages == Init /\ [][NextImages]_vars

\* ------------------------------------------------------------- register
\* Values of data['email'] a client sends.
EmailInputs ==
    {"", "  ", "ann@x.io", " Ann@X.io ", "bob@x.io", "BOB@X.IO", " bob@x.io", "cy@x.io"}

\* email.strip().lower()
Normalize(e) ==
    IF e \in {"", "  "} THEN ""
    ELSE IF e \in {"ann@x.io", " Ann@X.io "} THEN "ann@x.io"
    ELSE IF e \in {"bob@x.io", "BOB@X.IO", " bob@x.io"} THEN "bob@x.io"
    ELSE e

\* User.query.filter_by(email=email).first() finds a row.
Registered(email) == \E u \in DOMAIN users : users[u].email = email

\* register, lines 21-35: the body is validated and the users table is
\* searched for the email.  len is the length of the posted password.
RegisterCheck(w, e, len) ==
    /\ calls[w].pc = "idle"
    /\ LET email == Normalize(e)
       IN  IF email = "" \/ len = 0
           THEN resp' = Answer("register", "400", email) /\ UNCHANGED calls
           ELSE IF len < MinPassword
           THEN resp' = Answer("register", "400", email) /\ UNCHANGED calls
           ELSE IF Registered(email)
           THEN resp' = Answer("register", "409", email) /\ UNCHANGED calls
           ELSE /\ calls' = [calls EXCEPT ![w] =
                     [pc |-> "insert", op |-> "register", email |-> email]]
                /\ UNCHANGED resp
    /\ UNCHANGED <<now, users, vehicles, auctions, bids, req, started, orders, images>>

\* register, lines 38-64: the user row is inserted and committed.  The email
\* column is unique: if the email has been registered since the check, the
\* INSERT raises IntegrityError, which the handler does not catch.
RegisterCommit(w) ==
    /\ calls[w].pc = "insert" /\ calls[w].op = "register"
    /\ IF Registered(calls[w].email)
       THEN /\ resp' = Answer("register", "500", calls[w].email)
            /\ UNCHANGED users
       ELSE /\ users' = [u \in DOMAIN users \cup {Cardinality(DOMAIN users) + 1} |->
                           IF u \in DOMAIN users THEN users[u]
                           ELSE [email |-> calls[w].email, id_verified_at |-> NULL,
                                 authorize_payment_profile_id |-> NULL]]
            /\ resp' = Answer("register", "201", calls[w].email)
    /\ calls' = [calls EXCEPT ![w] = IdleCall]
    /\ UNCHANGED <<now, vehicles, auctions, bids, req, started, orders, images>>

NextRegister ==
    \/ \E w \in Workers, e \in EmailInputs, len \in {0, MinPassword - 1, MinPassword} :
         RegisterCheck(w, e, len)
    \/ \E w \in Workers : RegisterCommit(w)

SpecRegister == Init /\ [][NextRegister]_vars

\* ------------------------------------------------------- reading the ledger
\* The rows of the bids table that belong to auction a (by position = id).
BidsOf(a) == {i \in 1..Len(bids) : bids[i].auction_id = a}

\* Auction.bids: the auction's bids ORDER BY amount DESC.  The query names no
\* second key, so rows of equal amount come back in whatever order the
\* database picks: every ordering by descending amount is a possible result.
AuctionBids(a) ==
    LET n == Cardinality(BidsOf(a))
    IN  {h \in [1..n -> BidsOf(a)] :
           /\ \A i, j \in 1..n : i # j => h[i] # h[j]
           /\ \A i, j \in 1..n : i < j => bids[h[i]].amount >= bids[h[j]].amount}

\* Auction.highest_bid: self.bids.first(), None (0) for an auction without bids.
highest_bid(a) ==
    IF BidsOf(a) = {} THEN {0} ELSE {h[1] : h \in AuctionBids(a)}

\* get_auction_bids: the 'bids' list of the response, auction.bids.limit(50).
get_auction_bids(a) ==
    {SubSeq(h, 1, IF Len(h) < HistoryLimit THEN Len(h) ELSE HistoryLimit) : h \in AuctionBids(a)}

\* ------------------------------------------------------------------ claims

\* C1: for any two bids recorded on the same auction, the later one is at least
\* the earlier one plus the fixed increment, in every interleaving of requests.
C1_LaterBidClearsEarlierByIncrement ==
    \A i, j \in 1..Len(bids) :
        (i < j /\ bids[i].auction_id = bids[j].auction_id)
            => bids[j].amount >= bids[i].amount + INCREMENT

\* C2: no commit leaves an auction's current_bid lower than it was before.
C2_CurrentBidNeverDecreases ==
    [][\A a \in AuctionIds : auctions'[a].current_bid >= auctions[a].current_bid]_vars

\* ------------------------------------------------- vocabulary of the claims
\* The bidder is identity-verified and holds a payment method.
Eligible(u) ==
    users[u].id_verified_at # NULL /\ users[u].authorize_payment_profile_id # NULL

\* Auction a has status 'active' and t lies in [starts_at, ends_at].
InWindow(a, t) ==
    /\ auctions[a].status = "active"
    /\ auctions[a].starts_at <= t
    /\ t <= auctions[a].ends_at

\* The request carries an amount (a JSON number or a numeric string).
IsAmount(in) == in.kind \in {"number", "numstr"}

\* The JSON number 0, which Python treats as no amount at all.
IsZeroNumber(in) == in.kind = "number" /\ in.val = 0

\* Steps of worker w's request.
Validates(w) == req[w].pc = "loaded" /\ req'[w].pc # "loaded"
Commits(w) == req[w].pc = "commit" /\ req'[w].pc = "done"
Rejected(w) == req[w].pc = "done" /\ req[w].outcome # "accepted"
Passed(w) == req[w].pc = "commit" \/ (req[w].pc = "done" /\ req[w].outcome = "accepted")

\* No other request has committed on the auction since w's request read it:
\* the request runs as a single place_bid against the current row.
Single(w) == req[w].loaded = auctions[req[w].auction_id]

\* What a single accepted place_bid leaves behind.
RecordsBid(w) ==
    LET r == req[w]
        a == r.auction_id
    IN  /\ auctions'[a].current_bid = r.input.val
        /\ auctions'[a].bid_count = auctions[a].bid_count + 1
        /\ Len(bids') = Len(bids) + 1
        /\ \A i \in 1..Len(bids) : bids'[i] = bids[i]
        /\ bids'[Len(bids')].amount = r.input.val
        /\ bids'[Len(bids')].user_id = r.user
        /\ bids'[Len(bids')].auction_id = a

\* C3 (as stated): for an active auction with current price p > 0 and an
\* eligible bidder, a single place_bid with amount a is accepted iff
\* a >= p + 100; every rejection reports the minimum p + 100; an acceptance
\* sets current_bid = a, raises bid_count by one and stores one new Bid.
C3_AcceptIffAtLeastMinimum ==
    [][\A w \in Workers :
        LET r == req[w]
            a == r.auction_id
            p == auctions[a].current_bid
        IN  /\ (/\ Validates(w) /\ Single(w) /\ Eligible(r.user) /\ InWindow(a, now)
                /\ p > 0 /\ IsAmount(r.input))
               => /\ (req'[w].pc = "commit") <=> (r.input.val >= p + INCREMENT)
                  /\ req'[w].pc = "done"
                       => /\ req'[w].outcome = "below_minimum"
                          /\ req'[w].min_bid = p + INCREMENT
            /\ (Commits(w) /\ Single(w)) => RecordsBid(w)]_vars

\* C3 (amended): the same, except that the JSON number 0 is rejected as a
\* missing amount ("Bid amount is required.") without reporting a minimum.
C3_AcceptIffAtLeastMinimum_NonZero ==
    [][\A w \in Workers :
        LET r == req[w]
            a == r.auction_id
            p == auctions[a].current_bid
        IN  /\ (/\ Validates(w) /\ Single(w) /\ Eligible(r.user) /\ InWindow(a, now)
                /\ p > 0 /\ IsAmount(r.input))
               => /\ (req'[w].pc = "commit") <=> (r.input.val >= p + INCREMENT)
                  /\ (req'[w].pc = "done" /\ ~IsZeroNumber(r.input))
                       => /\ req'[w].outcome = "below_minimum"
                          /\ req'[w].min_bid = p + INCREMENT
                  /\ (req'[w].pc = "done" /\ IsZeroNumber(r.input))
                       => /\ req'[w].outcome = "amount_required"
                          /\ req'[w].min_bid = 0
            /\ (Commits(w) /\ Single(w)) => RecordsBid(w)]_vars

\* C3 witness: the scenario of the specification: current price 15000, a bid
\* of 15100 accepted, current_bid 15100 and bid_count one higher.
C3_Witness ==
    \E w \in Workers :
        /\ req[w].pc = "done" /\ req[w].outcome = "accepted"
        /\ req[w].loaded.current_bid = BasePrice
        /\ req[w].input.val = BasePrice + INCREMENT
        /\ auctions[req[w].auction_id].current_bid = BasePrice + INCREMENT
        /\ auctions[req[w].auction_id].bid_count = req[w].loaded.bid_count + 1
        /\ Len(bids) = 2

\* C4: a request whose is_active check ran while the auction's status was not
\* 'active' or the clock was outside [starts_at, ends_at] is never accepted;
\* from an eligible bidder it is answered "not active".
C4_InactiveAuctionAcceptsNoBid ==
    \A w \in Workers :
        LET r == req[w]
        IN  /\ Passed(w) => InWindow(r.auction_id, r.checked_at)
            /\ (r.pc = "done" /\ Eligible(r.user) /\ ~InWindow(r.auction_id, r.checked_at))
                 => r.outcome = "not_active"

\* C4 witness: status still 'active', ends_at passed, an otherwise acceptable
\* bid from an eligible bidder rejected as not active.
C4_Witness ==
    \E w \in Workers :
        /\ req[w].pc = "done" /\ req[w].outcome = "not_active"
        /\ auctions[req[w].auction_id].status = "active"
        /\ req[w].checked_at > auctions[req[w].auction_id].ends_at
        /\ Eligible(req[w].user)
        /\ req[w].input = [kind |-> "number", val |-> BasePrice + INCREMENT]

\* C5: a bidder lacking the verified identity or the payment method is
\* rejected as not eligible whatever the amount, the rejecting step changes no
\* auction and stores no bid, and no stored Bid belongs to such a bidder.
C5_IneligibleBidderAlwaysRejected ==
    /\ [](\A i \in 1..Len(bids) : Eligible(bids[i].user_id))
    /\ [][\A w \in Workers :
            (Validates(w) /\ ~Eligible(req[w].user))
              => /\ req'[w].pc = "done"
                 /\ req'[w].outcome = "not_eligible"
                 /\ auctions' = auctions
                 /\ bids' = bids]_vars

\* C5 witness: an identity-verified bidder without payment method, bidding an
\* otherwise acceptable amount on an active auction, rejected as not eligible.
C5_Witness ==
    \E w \in Workers :
        /\ req[w].pc = "done" /\ req[w].outcome = "not_eligible"
        /\ users[req[w].user].id_verified_at # NULL
        /\ users[req[w].user].authorize_payment_profile_id = NULL
        /\ InWindow(req[w].auction_id, req[w].checked_at)
        /\ req[w].input = [kind |-> "number", val |-> BasePrice + INCREMENT]

\* C6: a step in which a request is received or rejected leaves every auction
\* row (current_bid, bid_count, ends_at, status) and the Bid table unchanged.
C6_RejectionChangesNothing ==
    [][\A w \in Workers :
        (\/ req[w].pc = "idle" /\ req'[w].pc = "loaded"
         \/ Validates(w) /\ req'[w].pc = "done")
          => auctions' = auctions /\ bids' = bids]_vars

\* C6 witness: a below-minimum rejection on an auction that already has a bid.
C6_Witness ==
    \E w \in Workers :
        /\ Rejected(w) /\ req[w].outcome = "below_minimum"
        /\ Len(bids) = 1
        /\ auctions[req[w].auction_id].bid_count = 1
        /\ auctions[req[w].auction_id].current_bid = bids[1].amount

\* C7 (as stated): the first bid on an auction is accepted only if
\* amount >= starting_price + 100.
C7_FirstBidAtLeastStartPlusIncrement ==
    \A i \in 1..Len(bids) :
        (\A j \in 1..(i - 1) : bids[j].auction_id # bids[i].auction_id)
          => bids[i].amount
               >= vehicles[auctions[bids[i].auction_id].vehicle_id].starting_price + INCREMENT

\* C7 (amended): a bid passes validation only if its amount is at least the
\* current price it read plus 100, or, when that price is 0 (no bid yet), at
\* least the vehicle's starting price itself; a below-minimum rejection reports
\* exactly that minimum; the first bid stored is at least the starting price.
C7_MinimumIsPricePlusIncrementOrStart ==
    /\ \A w \in Workers :
         LET r == req[w]
             p == r.loaded.current_bid
             sp == vehicles[r.loaded.vehicle_id].starting_price
             m == IF p # 0 THEN p + INCREMENT ELSE sp
         IN  /\ Passed(w) => r.input.val >= m
             /\ (r.pc = "done" /\ r.outcome = "below_minimum")
                  => r.input.val < m /\ r.min_bid = m
    /\ \A i \in 1..Len(bids) :
         (\A j \in 1..(i - 1) : bids[j].auction_id # bids[i].auction_id)
           => bids[i].amount >= vehicles[auctions[bids[i].auction_id].vehicle_id].starting_price

\* C7 witness: a first bid of exactly the starting price has been recorded.
C7_Witness ==
    /\ Len(bids) >= 1
    /\ bids[1].amount = vehicles[auctions[bids[1].auction_id].vehicle_id].starting_price
    /\ auctions[bids[1].auction_id].current_bid = bids[1].amount

\* C8 (as stated): a bid from an ineligible bidder on an auction that is not
\* active is answered "not active".
C8_NotActiveBeforeNotEligible ==
    \A w \in Workers :
        (/\ req[w].pc = "done"
         /\ ~Eligible(req[w].user)
         /\ ~InWindow(req[w].auction_id, req[w].checked_at))
          => req[w].outcome = "not_active"

\* C8 (amended): the rules apply in the order not-eligible, not-active,
\* amount missing, amount invalid, below-minimum: every rejection carries the
\* first rule in that order that the request fails, so an ineligible bidder is
\* answered "not eligible" also when the auction is not active.
C8_NotEligibleBeforeNotActive ==
    \A w \in Workers :
        LET r == req[w]
        IN  Rejected(w) =>
              r.outcome =
                IF ~Eligible(r.user) THEN "not_eligible"
                ELSE IF ~InWindow(r.auction_id, r.checked_at) THEN "not_active"
                ELSE IF r.input.kind = "null" \/ IsZeroNumber(r.input) THEN "amount_required"
                ELSE IF r.input.kind = "text" THEN "invalid_amount"
                ELSE "below_minimum"

\* C8 witness: an ineligible bidder on an auction that is not active has been
\* answered "not eligible".
C8_Witness ==
    \E w \in Workers :
        /\ req[w].pc = "done" /\ req[w].outcome = "not_eligible"
        /\ ~Eligible(req[w].user)
        /\ ~InWindow(req[w].auction_id, req[w].checked_at)

\* C9: every recorded Bid was committed while its auction had status 'active'
\* and at a time within [starts_at, ends_at].
C9_BidsCommittedWithinWindow ==
    \A i \in 1..Len(bids) :
        LET a == auctions[bids[i].auction_id]
        IN  /\ a.status = "active"
            /\ a.starts_at <= bids[i].created_at
            /\ bids[i].created_at <= a.ends_at

\* C10: an auction's bid_count equals the number of Bid rows stored for it.
C10_BidCountMatchesLedger ==
    \A a \in AuctionIds : auctions[a].bid_count = Cardinality(BidsOf(a))

\* The bidder of the highest-amount bid of auction a (0 when it has no bid).
HighestBidders(a) ==
    IF BidsOf(a) = {} THEN {0}
    ELSE {bids[i].user_id : i \in {k \in BidsOf(a) :
                                     \A j \in BidsOf(a) : bids[j].amount <= bids[k].amount}}

\* C11: every auction with status 'active' whose end time has passed is
\* eventually closed: its status becomes 'ended' and its winner reference is
\* the bidder of its highest-amount bid, or empty when it has no bids.
C11_ExpiredAuctionEventuallyClosed ==
    \A a \in AuctionIds :
        (auctions[a].status = "active" /\ now > auctions[a].ends_at)
          ~> (auctions[a].status = "ended" /\ auctions[a].winner_id \in HighestBidders(a))

\* C15: an auction's winner_id is set only if its status is 'ended' and it has
\* at least one bid; an accepted bid on an active auction does not set it.
C15_WinnerOnlyOnEndedAuctionWithBids ==
    \A a \in AuctionIds :
        auctions[a].winner_id # 0
          => auctions[a].status = "ended" /\ BidsOf(a) # {}

\* C15 witness: a bid has been accepted on an active auction and the auction
\* still has no winner.
C15_Witness ==
    \E w \in Workers :
        /\ req[w].pc = "done" /\ req[w].outcome = "accepted"
        /\ auctions[req[w].auction_id].status = "active"
        /\ auctions[req[w].auction_id].winner_id = 0
        /\ BidsOf(req[w].auction_id) # {}

\* C16: a bid accepted within the anti-snipe threshold of the end time extends
\* the end time and raises extended_count by one.  Stated for a bid committed
\* at the end time itself, which lies within every threshold.
C16_LateBidExtendsAuction ==
    [][\A w \in Workers :
        LET a == req[w].auction_id
        IN  (Commits(w) /\ now = auctions[a].ends_at)
              => /\ auctions'[a].ends_at > auctions[a].ends_at
                 /\ auctions'[a].extended_count = auctions[a].extended_count + 1]_vars

\* The status changes of an auction that the lifecycle permits.
AllowedTransitions ==
    {<<"scheduled", "active">>, <<"scheduled", "cancelled">>,
     <<"active", "ended">>, <<"active", "cancelled">>}

\* C17: an auction's status changes only along scheduled -> active,
\* scheduled -> cancelled, active -> ended and active -> cancelled; no step
\* changes the status of an ended or cancelled auction.
C17_StatusFollowsLifecycle ==
    [][\A a \in AuctionIds :
        auctions'[a].status # auctions[a].status
          => <<auctions[a].status, auctions'[a].status>> \in AllowedTransitions]_vars

\* C17 witness: place_bid has run against an ended auction (and was refused),
\* and the auction is still ended.
C17_Witness ==
    \E w \in Workers :
        /\ req[w].pc = "done" /\ req[w].outcome = "not_active"
        /\ req[w].loaded.status \in {"ended", "cancelled"}
        /\ auctions[req[w].auction_id].status = req[w].loaded.status

\* C18: the bid history of an auction is ordered by amount descending with
\* ties broken by earlier creation time, highest_bid is the earliest-created
\* bid among those of maximal amount, and an auction without bids has an empty
\* history.
C18_LedgerOrderedByAmountThenTime ==
    \A a \in AuctionIds :
        /\ \A h \in get_auction_bids(a) :
             \A i, j \in 1..Len(h) :
                i < j => \/ bids[h[i]].amount > bids[h[j]].amount
                         \/ /\ bids[h[i]].amount = bids[h[j]].amount
                            /\ bids[h[i]].created_at <= bids[h[j]].created_at
        /\ \A b \in highest_bid(a) :
             b # 0 => \A k \in BidsOf(a) :
                        \/ bids[k].amount < bids[b].amount
                        \/ /\ bids[k].amount = bids[b].amount
                           /\ bids[b].created_at <= bids[k].created_at
        /\ BidsOf(a) = {} => get_auction_bids(a) = {<<>>}

\* ------------------------------------------------------ claims on orders
\* The value of a nullable money column, 0 when NULL.
Money(x) == IF x = <<>> THEN 0 ELSE x[1]

\* C13: at most one Order exists per Auction in every reachable state: no two
\* rows of the orders table name the same auction.
C13_AtMostOneOrderPerAuction ==
    \A i, j \in 1..Len(orders) :
        (i # j /\ orders[i].auction_id # <<>>)
            => orders[i].auction_id # orders[j].auction_id

\* C14: every stored Order's total is vehicle_price + buyer_fee +
\* transport_fee (0 when null) + title_fee + tax.
C14_TotalIsSumOfComponents ==
    \A i \in 1..Len(orders) :
        Money(orders[i].total) =
            Money(orders[i].vehicle_price) + Money(orders[i].buyer_fee)
            + Money(orders[i].transport_fee) + Money(orders[i].title_fee)
            + Money(orders[i].tax)

\* The step stores a new Order row.
Stores == Len(orders') = Len(orders) + 1

C19_BidsAreAppendOnly ==
    [][/\ Len(bids') >= Len(bids)
       /\ \A i \in 1..Len(bids) : bids'[i] = bids[i]]_vars

\* A bid is on record and the seller has just asked to delete its vehicle.
C19_Witness ==
    /\ Len(bids) > 0
    /\ resp.op = "delete_vehicle"
    /\ resp.arg = ToString(auctions[bids[1].auction_id].vehicle_id)
    /\ vehicles[auctions[bids[1].auction_id].vehicle_id].seller_id = 2
    /\ resp.code # "403"

\* --------------------------------------------------- claims on the clock
\* What the claim says time_remaining is at clock reading t.
RemainingAt(a, t) ==
    IF ~is_active(a, t) THEN 0 ELSE WholeSeconds(a.ends_at - t)

\* A finished call of time_remaining on worker w.
Remained(w) == calls[w].pc = "done" /\ calls[w].op = "time_remaining"

\* C21: time_remaining is 0 when the auction is not active and otherwise the
\* whole seconds from now until ends_at, "now" being a reading of the clock
\* the call took; it is never negative, and a positive value implies the
\* auction is active at every moment of the call.
C21_TimeRemainingZeroUnlessActive ==
    \A w \in Workers :
        Remained(w) =>
            LET c == calls[w]
                a == auctions[c.auction_id]
            IN  /\ \E t \in {c.t1, c.t2} : c.result = RemainingAt(a, t)
                /\ c.result >= 0
                /\ c.result > 0 => \A t \in c.t1..c.t2 : is_active(a, t)
                /\ (\A t \in c.t1..c.t2 : ~is_active(a, t)) => c.result = 0

\* A call returned a positive number of seconds although the clock advanced
\* between its two readings.
C21_Witness ==
    \E w \in Workers :
        /\ Remained(w)
        /\ calls[w].result > 0
        /\ calls[w].t2 > calls[w].t1

\* ------------------------------------------------ claims on the catalogue
\* C22: the listing returns only vehicles whose status is 'active', and every
\* returned vehicle satisfies every supplied filter: make and model equal to
\* the requested ones, year_min <= year <= year_max, starting_price <= price_max.
C22_ListingHonoursEveryFilter ==
    resp.op = "list_vehicles" =>
        \A i \in 1..Len(resp.items) :
            LET v == vehicles[resp.items[i]]
                q == resp.arg
            IN  /\ v.status = "active"
                /\ q.make # <<>> => v.make = q.make
                /\ q.model # <<>> => v.model = q.model
                /\ q.year_min # <<>> => (v.year # <<>> /\ q.year_min[1] <= v.year[1])
                /\ q.year_max # <<>> => (v.year # <<>> /\ v.year[1] <= q.year_max[1])
                /\ q.price_max # <<>> => v.starting_price <= q.price_max[1]

\* C23: for an auction with at least one recorded bid, current_bid is the
\* largest amount among its recorded bids, the amount of highest_bid.
C23_CurrentBidIsHighestBid ==
    \A a \in AuctionIds :
        BidsOf(a) # {} =>
            /\ \A i \in BidsOf(a) : bids[i].amount <= auctions[a].current_bid
            /\ \A b \in highest_bid(a) : bids[b].amount = auctions[a].current_bid

\* ------------------------------------------- claims on the vehicle handlers
\* One of year, make, model and starting_price is not set on the row.
MissingField(row) ==
    row.year = <<>> \/ row.make = <<>> \/ row.model = <<>> \/ row.starting_price = 0

\* C24: submit_vehicle changes a vehicle's status only from 'draft' to
\* 'pending_review', only for the seller and only when year, make, model and
\* starting_price are set; for an unknown vehicle, another user, a non-draft
\* status or a missing field it answers an error and changes nothing, so a
\* second submission right after a successful one fails.
C24_SubmitOnlyDraftBySeller ==
    [][\A u \in UserIds, v \in VehicleIds :
         SubmitVehicle(u, v) =>
            /\ vehicles' # vehicles =>
                 /\ v \in DOMAIN vehicles
                 /\ vehicles[v].seller_id = u
                 /\ vehicles[v].status = "draft"
                 /\ ~MissingField(vehicles[v])
                 /\ vehicles' = [vehicles EXCEPT ![v].status = "pending_review"]
                 /\ resp'.code = "200"
            /\ (\/ v \notin DOMAIN vehicles
                \/ vehicles[v].seller_id # u
                \/ vehicles[v].status # "draft"
                \/ MissingField(vehicles[v]))
                 => (vehicles' = vehicles /\ resp'.code \in {"400", "403", "404"})
            /\ (resp = Answer("submit_vehicle", "200", ToString(v)))
                 => (vehicles' = vehicles /\ resp'.code # "200")]_vars

\* A draft has been submitted and is in review.
C24_Witness ==
    /\ resp = Answer("submit_vehicle", "200", "2")
    /\ vehicles[2].status = "pending_review"

\* C25: delete_vehicle never removes a vehicle that is 'sold', whose auction
\* is 'active', or that belongs to another user: it answers an error and the
\* vehicle remains stored; every 'active' auction references an existing vehicle.
C25_DeleteRefusedForSoldActiveOrForeign ==
    /\ [](\A a \in AuctionIds :
            auctions[a].status = "active" => auctions[a].vehicle_id \in DOMAIN vehicles)
    /\ [][\A u \in UserIds, v \in DOMAIN vehicles :
            (/\ DeleteVehicle(u, v)
             /\ \/ vehicles[v].status = "sold"
                \/ \E a \in AuctionIds :
                     auctions[a].vehicle_id = v /\ auctions[a].status = "active"
                \/ vehicles[v].seller_id # u)
              => (vehicles' = vehicles /\ resp'.code \in {"400", "403"})]_vars

\* The seller asked to delete a sold vehicle and was refused; the vehicle is
\* still stored, as is the vehicle of the active auction.
C25_Witness ==
    /\ resp = Answer("delete_vehicle", "400", "2")
    /\ vehicles[2].status = "sold"
    /\ \E a \in AuctionIds : auctions[a].status = "active" /\ auctions[a].vehicle_id = 1

\* C26: update_vehicle changes nothing when the caller is not the seller or
\* the vehicle is 'sold'; when it succeeds it changes only updatable fields
\* present in the request, to the requested values, and never the vehicle's
\* status, seller_id or vin, any other vehicle, or any auction or bid.
C26_UpdateTouchesOnlyRequestedFields ==
    [][resp'.op = "update_vehicle" =>
       \A u \in UserIds, v \in VehicleIds, data \in UpdateBodies :
         UpdateVehicle(u, v, data) =>
            /\ (v \in DOMAIN vehicles
                  /\ (vehicles[v].seller_id # u \/ vehicles[v].status = "sold"))
                 => (vehicles' = vehicles /\ resp'.code \in {"400", "403"})
            /\ DOMAIN vehicles' = DOMAIN vehicles
            /\ \A x \in DOMAIN vehicles :
                 /\ vehicles'[x].status = vehicles[x].status
                 /\ vehicles'[x].seller_id = vehicles[x].seller_id
                 /\ vehicles'[x].vin = vehicles[x].vin
                 /\ \A f \in DOMAIN vehicles[x] :
                      vehicles'[x][f] # vehicles[x][f]
                        => /\ x = v
                           /\ f \in Updatable /\ f \in DOMAIN data
                           /\ vehicles'[x][f] = data[f]
            /\ UNCHANGED <<auctions, bids>>]_vars

\* The seller's update of the year of vehicle 2 has been stored.
C26_Witness ==
    /\ resp = Answer("update_vehicle", "200", "2")
    /\ 2 \in DOMAIN vehicles
    /\ vehicles[2].year = <<2022>>

\* ------------------------------------------------------- claims on images
\* C27: after any interleaving of add_vehicle_image and delete_vehicle_image
\* requests, a vehicle has at most one image with is_primary true.
C27_AtMostOnePrimaryImage ==
    \A v \in VehicleIds : Cardinality(PrimaryImages(v)) <= 1

\* -------------------------------------------------------- claims on pay
\* C28: pay proceeds only for the order's buyer and only while the order is
\* 'pending_payment'; anyone else, or any other status, is redirected; and no
\* pay request, accepted or not, changes an order (status, total, paid_at).
C28_PayChangesNoOrder ==
    [][resp'.op = "pay" =>
       \A u \in UserIds, id \in 1..MaxOrders, m \in {"GET", "POST"} :
         Pay(u, id, m) =>
            /\ orders' = orders
            /\ resp'.code \in {"render:pay", "redirect:detail:processed"}
                 <=> /\ id \in 1..Len(orders)
                     /\ orders[id].buyer_id = u
                     /\ orders[id].status = "pending_payment"
            /\ (id \in 1..Len(orders) /\ orders[id].buyer_id # u)
                 => resp'.code = "redirect:list_orders"
            /\ (id \in 1..Len(orders) /\ orders[id].buyer_id = u
                  /\ orders[id].status # "pending_payment")
                 => resp'.code = "redirect:detail"]_vars

\* The buyer has posted the payment of a pending order; the order is as it was.
C28_Witness ==
    /\ resp.op = "pay" /\ resp.code = "redirect:detail:processed"
    /\ Len(orders) > 0
    /\ orders[1].status = "pending_payment" /\ orders[1].paid_at = <<>>
    /\ resp.arg = "1"

\* ---------------------------------------------------- claims on register
\* C29: no two users share an email, and a register request for an email that
\* is already registered (after trimming and lower-casing) is answered with a
\* conflict (409) and creates no user, also when the email was registered by a
\* concurrent request after this request's check.
C29_DuplicateEmailAnsweredConflict ==
    /\ [](\A u1, u2 \in DOMAIN users : users[u1].email = users[u2].email => u1 = u2)
    /\ [][\A w \in Workers :
            /\ \A e \in EmailInputs :
                 (RegisterCheck(w, e, MinPassword) /\ Registered(Normalize(e)))
                   => (users' = users /\ resp'.code = "409")
            /\ (RegisterCommit(w) /\ Registered(calls[w].email))
                   => (users' = users /\ resp'.code = "409")]_vars

\* ---------------------------------------------------- claims on auto-bid
\* C30: set_auto_bid never creates a Bid and never changes an auction, whether
\* it answers success or an error; every recorded Bid has is_auto_bid false
\* and no max_bid.
C30_AutoBidDoesNothing ==
    /\ [](\A i \in 1..Len(bids) : bids[i].is_auto_bid = FALSE /\ bids[i].max_bid = NULL)
    /\ [][resp'.op = "set_auto_bid" =>
            \A u \in UserIds, a \in AuctionIds, max \in {0, BasePrice} :
               SetAutoBid(u, a, max) => (bids' = bids /\ auctions' = auctions)]_vars

\* An auto-bid was accepted on an auction that has a bid; the auction's price
\* and count are still those of the bid.
C30_Witness ==
    /\ resp = Answer("set_auto_bid", "200", "1")
    /\ Len(bids) = 1
    /\ auctions[1].bid_count = 1 /\ auctions[1].current_bid = bids[1].amount
====
